---- MODULE Spec2Model ----
(***************************************************************************)
(* Model of the single-worker task queue of the file-converter bot         *)
(* (addToQueue / processQueue / removeFromQueue / clearQueue) and of the   *)
(* places of the bot that call it.                                         *)
(*                                                                         *)
(* JavaScript runs every callback to completion: an atomic step of the     *)
(* model is the code between two suspension points (await, setTimeout).    *)
(* The suspended calls are kept as state:                                  *)
(*   call[j]   where the addToQueue call that created job j stands,        *)
(*   running   the handler invocations processQueue is awaiting,           *)
(*   replying  the processQueue invocations awaiting the terminal reply,   *)
(*   timers    the pending setTimeout callbacks of processQueue.           *)
(* Job ids stand for the uuid of the queue item: job j is the j-th item    *)
(* pushed by addToQueue.                                                   *)
(***************************************************************************)
EXTENDS Integers, Sequences, FiniteSets, TLC

\* ---------------------------------------------------------------- bounds
\* number of addToQueue calls in Spec and SpecLive (one owner, default options)
MaxJobs == 3

\* number of addToQueue calls in SpecOptions (options.maxAttempts varies)
OptionJobs == 2

\* number of addToQueue calls in SpecOwners (two owners, removals recorded)
OwnerJobs == 3

\* number of file uploads in SpecBot (the queue as the bot drives it)
UploadJobs == 2

\* number of format-selection callbacks handled in SpecBot
MaxConversions == 2

\* number of addToQueue calls in SpecStats (durations vary, getQueueStats recorded)
StatsJobs == 3

\* number of addToQueue calls in SpecAverage (each made on the idle queue)
AverageJobs == 8

\* number of failing handler executions in SpecAverage
MaxFailures == 3

\* number of addToQueue calls in SpecAdmin (addToQueue and clearQueue recorded)
AdminJobs == 2

\* number of addToQueue calls in SpecCalls (addToQueue and its notice recorded)
CallJobs == 3

\* DAILY_FREE_CREDITS of the deployment: the free credits a user starts with
DailyFreeCredits == 1

\* number of file uploads in SpecUploads
MaxUploads == 2

JobBounds == {MaxJobs, OptionJobs, OwnerJobs, UploadJobs, StatsJobs, AverageJobs, AdminJobs, CallJobs}

Jobs == 1 .. (CHOOSE n \in JobBounds : \A m \in JobBounds : m <= n)

Users == {1, 2}

OneUser == {1}

\* the first convert_<format> callback
OneConversion == {1}

\* values of options.maxAttempts a caller may pass (besides passing none)
SuppliedValues == {-1, 0, 1, 2}

\* Date.now() - startTime of a successful execution, in ms
Durations == {100, 200}

OneDuration == {100}

\* "Rough estimate: 30 seconds per task"
SecondsPerTask == 30

\* ------------------------------------------------------- program constants
DefaultMaxAttempts == 3

NoTask == 0

NoOptions == [has |-> FALSE, maxAttempts |-> 0]

OptionsSet == {NoOptions} \cup {[has |-> TRUE, maxAttempts |-> n] : n \in SuppliedValues}

NoJob == [userId |-> 0, options |-> NoOptions, attempts |-> 0, maxAttempts |-> 0]

\* time: the sum of the durations of the successful executions of the job
NoHist == [execs |-> 0, succ |-> 0, termFail |-> 0, removed |-> 0, termMsgs |-> 0, time |-> 0]

\* the value of stats in the record of a call that returns no statistics
NoStats == [totalProcessed |-> 0, totalFailed |-> 0, averageProcessingTime |-> 0,
            currentQueueLength |-> 0, isProcessing |-> FALSE, currentTaskId |-> 0]

\* what happens to the calls processFile makes: the initial progress reply is
\* delivered (progress); the analysis of the file ends in the offer of the
\* formats, in one of the four refusals, or throws; the message edit showing
\* that result is delivered (edited); in the catch block the edit of the error
\* message is delivered (errorEdited), and so is its ctx.reply (errorReplied).
\* A call that is not made has no outcome (FALSE, "none").
Analyses == {"offer", "noinfo", "unknown", "toolarge", "optimal", "throws"}

ProcessFileRuns ==
    {run \in [progress : BOOLEAN, analysis : Analyses \cup {"none"}, edited : BOOLEAN,
              errorEdited : BOOLEAN, errorReplied : BOOLEAN] :
        /\ run.analysis # "none" <=> run.progress
        /\ run.edited => run.analysis \in Analyses \ {"throws"}
        /\ run.errorEdited => run.progress /\ ~run.edited
        /\ run.errorReplied => ~run.edited /\ ~run.errorEdited}

\* one run for each outcome of processFile: the formats are offered; the file
\* is refused as unsupported; the offer cannot be delivered and neither can the
\* error message; the progress reply fails and so does the error reply
OutcomeRuns ==
    {[progress |-> TRUE, analysis |-> "offer", edited |-> TRUE,
      errorEdited |-> FALSE, errorReplied |-> FALSE],
     [progress |-> TRUE, analysis |-> "unknown", edited |-> TRUE,
      errorEdited |-> FALSE, errorReplied |-> FALSE],
     [progress |-> TRUE, analysis |-> "offer", edited |-> FALSE,
      errorEdited |-> FALSE, errorReplied |-> FALSE],
     [progress |-> FALSE, analysis |-> "none", edited |-> FALSE,
      errorEdited |-> FALSE, errorReplied |-> FALSE]}

NoRun == [progress |-> FALSE, analysis |-> "none", edited |-> FALSE,
          errorEdited |-> FALSE, errorReplied |-> FALSE]

NoOp == [op |-> "none", arg |-> 0, ok |-> FALSE, count |-> 0, stats |-> NoStats,
         run |-> NoRun]

\* The record of a call of the exported function op with argument arg, kept when
\* op is in rec: ok is the boolean it returned (addToQueue: whether it returned
\* rather than rejected), count the number it returned.
Recorded(rec, op, arg, ok, count) ==
    IF op \in rec THEN [NoOp EXCEPT !.op = op, !.arg = arg, !.ok = ok, !.count = count]
    ELSE NoOp

Conversions == 1 .. MaxConversions

NoConversion == [pc |-> "idle", userId |-> 0, freeCredits |-> 0, paidCredits |-> 0]

Uploads == 1 .. MaxUploads

NoUpload == [pc |-> "idle", userId |-> 0, freeCredits |-> 0, paidCredits |-> 0]

VARIABLES
    processingQueue,   \* let processingQueue = []       (sequence of job ids)
    isProcessing,      \* let isProcessing = false
    currentTask,       \* let currentTask = null         (job id or NoTask)
    queueStats,        \* totalProcessed, totalFailed, averageProcessingTime
    task,              \* the queue items created so far, by job id
    call,              \* position of the addToQueue call that created job j
    running,           \* running[j]: handler invocations of job j in progress
    replying,          \* processQueue invocations awaiting the terminal reply
    timers,            \* pending setTimeout(processQueue, 1000) callbacks
    startLog,          \* history: jobs in the order their handler was invoked
    hist,              \* history: per-job counts of executions and outcomes
    retrying,          \* history: the job put back for a retry and not started since,
                       \*          with no removeFromQueue/clearQueue call since
    lastOp,            \* history: the call that ended in the last step, and its result
    session,           \* session[u]: ctx.session of user u holds fileInfo
    users,             \* the stored User documents: freeCredits, paidCredits
    conversion,        \* the convert_<format> callbacks being handled: position,
                       \* user, and the credits of the User document they loaded
    upload             \* the file uploads being handled: position, user, and the
                       \* credits of the User document they loaded (ctx.user)

botVars == <<session, users, conversion, upload>>

queueVars == <<processingQueue, isProcessing, currentTask, queueStats, task, call,
               running, replying, timers, startLog, hist, retrying>>

\* a step of the bot that calls no function of the queue
QueueUntouched ==
    /\ UNCHANGED queueVars
    /\ lastOp' = NoOp

vars == <<processingQueue, isProcessing, currentTask, queueStats, task, call,
          running, replying, timers, startLog, hist, retrying, lastOp,
          session, users, conversion, upload>>

\* ------------------------------------------------------------ arithmetic
\* A JavaScript number is an IEEE 754 binary64 value: every arithmetic operation
\* returns the exact result rounded to 53 significant bits, ties to even.
\* The numbers processQueue computes with are 0, the durations (positive
\* integers) and sums, products and averages of them: 0 or at least 1, and
\* multiples of 2^-52. The model keeps such a number x exactly, as three digits
\* <<i, f1, f2>> with x = i + f1 / 2^26 + f2 / 2^52 and f1, f2 < 2^26.
Precision == 53

Limb == 67108864

\* carries of the digits into the next higher ones
Carry(i, f1, f2) ==
    LET g1 == f1 + f2 \div Limb IN <<i + g1 \div Limb, g1 % Limb, f2 % Limb>>

\* x * k, exactly, for a small natural k
Times(x, k) == Carry(x[1] * k, x[2] * k, x[3] * k)

\* x + y, exactly
Plus(x, y) == Carry(x[1] + y[1], x[2] + y[2], x[3] + y[3])

\* long division of x by a small den: the quotient, and the remainder in 2^-52
DivMod(x, den) ==
    LET t1 == (x[1] % den) * Limb + x[2]
        t2 == (t1 % den) * Limb + x[3]
    IN [q |-> <<x[1] \div den, t1 \div den, t2 \div den>>, r |-> t2 % den]

\* the weight, in 2^-52, of the last of the Precision significant bits of a
\* number with the integer part i: 2^floor(log2 i)
RECURSIVE UnitInLastPlace(_)
UnitInLastPlace(i) == IF i <= 1 THEN 1 ELSE 2 * UnitInLastPlace(i \div 2)

\* the binary64 value nearest to x + r/den 2^-52 (0 <= r < den), ties to even
RoundToDouble(x, r, den) ==
    LET ulp == UnitInLastPlace(x[1])
        low == x[3] % ulp
        kept == x[3] - low
        odd == (kept \div ulp) % 2 = 1
        up == IF ulp = 1
              THEN 2 * r > den \/ (2 * r = den /\ odd)
              ELSE 2 * low > ulp \/ (2 * low = ulp /\ (r > 0 \/ odd))
    IN Carry(x[1], x[2], IF up THEN kept + ulp ELSE kept)

\* the number with the integer value d
DoubleOf(d) == <<d, 0, 0>>

\* x * k
DoubleTimes(x, k) == RoundToDouble(Times(x, k), 0, 1)

\* x + y
DoublePlus(x, y) == RoundToDouble(Plus(x, y), 0, 1)

\* x / n
DoubleOver(x, n) == LET qr == DivMod(x, n) IN RoundToDouble(qr.q, qr.r, n)

\* Math.floor(x)
Floor(x) == x[1]

\* mutant: the new sample weighs as much as all the earlier ones
RunningAverageUnweighted(oldAvg, n, sample) ==
    DoubleOver(DoublePlus(oldAvg, DoubleOf(sample)), IF n = 1 THEN 1 ELSE 2)

\* (oldAvg * (n - 1) + sample) / n
RunningAverage(oldAvg, n, sample) ==
    DoubleOver(DoublePlus(DoubleTimes(oldAvg, n - 1), DoubleOf(sample)), n)

RECURSIVE SumOver(_, _)
SumOver(f, S) ==
    IF S = {} THEN 0
    ELSE LET x == CHOOSE y \in S : TRUE IN f[x] + SumOver(f, S \ {x})

Range(s) == {s[i] : i \in 1 .. Len(s)}

\* ------------------------------------------------------- queue primitives
\* mutant: the supplied options.maxAttempts is ignored
MaxAttemptsIgnored(opt) == DefaultMaxAttempts

\* maxAttempts: options.maxAttempts || 3
MaxAttemptsOf(opt) ==
    IF opt.has /\ opt.maxAttempts # 0 THEN opt.maxAttempts ELSE DefaultMaxAttempts

\* mutant: the new item is put at the front
EnqueueFront(q, j) == <<j>> \o q

\* processingQueue.push(queueItem)
Enqueue(q, j) == Append(q, j)

\* mutant: the position notice is sent to every caller
ShowsPositionAlways(q) == TRUE

\* if (processingQueue.length > 1)
ShowsPosition(q) == Len(q) > 1

\* mutant: the position counts the new item itself
PositionIsLength(q) == Len(q)

\* const position = processingQueue.length - 1
PositionOf(q) == Len(q) - 1

\* const estimatedWait = position * 30
EstimatedWait(position) == position * SecondsPerTask

\* mutant: addToQueue never starts the loop
ShouldStartNever(busy) == FALSE

\* mutant: the busy flag is not consulted
ShouldStartAlways(busy) == TRUE

\* if (!isProcessing)
ShouldStart(busy) == ~busy

\* mutant: no failed attempt is retried
ShouldRetryNever(attempts, maxAttempts) == FALSE

\* mutant: one attempt too many
ShouldRetryInclusive(attempts, maxAttempts) == attempts <= maxAttempts

\* if (currentTask.attempts < currentTask.maxAttempts)
ShouldRetry(attempts, maxAttempts) == attempts < maxAttempts

\* mutant: the retried job goes to the back
RequeueBack(q, j) == Append(q, j)

\* mutant: the retried job is not put back
RequeueDropped(q, j) == q

\* mutant: the failed job is put back twice
RequeueTwice(q, j) == <<j, j>> \o q

\* processingQueue.unshift(currentTask)
RequeueFront(q, j) == <<j>> \o q

\* mutant: only the first item of the owner is removed
RECURSIVE FilterFirstOfOwner(_, _, _)
FilterFirstOfOwner(q, t, u) ==
    IF q = <<>> THEN q
    ELSE IF t[Head(q)].userId = u THEN Tail(q)
    ELSE <<Head(q)>> \o FilterFirstOfOwner(Tail(q), t, u)

\* processingQueue.filter(item => item.userId !== userId)
FilterOwner(q, t, u) == SelectSeq(q, LAMBDA j : t[j].userId # u)

\* the id of the next queue item (uuidv4(): a fresh id)
NextId == CHOOSE j \in Jobs : call[j] = "new" /\ \A k \in Jobs : k < j => call[k] # "new"

Init ==
    /\ processingQueue = <<>>
    /\ isProcessing = FALSE
    /\ currentTask = NoTask
    /\ queueStats = [totalProcessed |-> 0, totalFailed |-> 0, averageProcessingTime |-> DoubleOf(0)]
    /\ task = [j \in Jobs |-> NoJob]
    /\ call = [j \in Jobs |-> "new"]
    /\ running = [j \in Jobs |-> 0]
    /\ replying = 0
    /\ timers = 0
    /\ startLog = <<>>
    /\ hist = [j \in Jobs |-> NoHist]
    /\ retrying = NoTask
    /\ lastOp = NoOp
    /\ session = [u \in Users |-> FALSE]
    /\ users = [u \in Users |-> [freeCredits |-> DailyFreeCredits, paidCredits |-> 0]]
    /\ conversion = [c \in Conversions |-> NoConversion]
    /\ upload = [k \in Uploads |-> NoUpload]

\* ------------------------------------------------------------ processQueue
\* mutant: processQueue does not raise the busy flag
processQueueNoFlag(q) ==
    IF Len(q) = 0
    THEN /\ isProcessing' = FALSE
         /\ currentTask' = NoTask
         /\ processingQueue' = q
         /\ UNCHANGED <<running, startLog, hist, retrying>>
    ELSE /\ isProcessing' = isProcessing
         /\ currentTask' = Head(q)
         /\ processingQueue' = Tail(q)
         /\ running' = [running EXCEPT ![Head(q)] = @ + 1]
         /\ startLog' = Append(startLog, Head(q))
         /\ hist' = [hist EXCEPT ![Head(q)].execs = @ + 1]
         /\ retrying' = NoTask

\* mutant: processQueue leaves the busy flag set when it finds the list empty
processQueueKeepsFlag(q) ==
    IF Len(q) = 0
    THEN /\ isProcessing' = isProcessing
         /\ currentTask' = NoTask
         /\ processingQueue' = q
         /\ UNCHANGED <<running, startLog, hist, retrying>>
    ELSE /\ isProcessing' = TRUE
         /\ currentTask' = Head(q)
         /\ processingQueue' = Tail(q)
         /\ running' = [running EXCEPT ![Head(q)] = @ + 1]
         /\ startLog' = Append(startLog, Head(q))
         /\ hist' = [hist EXCEPT ![Head(q)].execs = @ + 1]
         /\ retrying' = NoTask

\* processQueue() from its entry to its first await, on the pending list q.
processQueue(q) ==
    IF Len(q) = 0
    THEN /\ isProcessing' = FALSE
         /\ currentTask' = NoTask
         /\ processingQueue' = q
         /\ UNCHANGED <<running, startLog, hist, retrying>>
    ELSE /\ isProcessing' = TRUE
         /\ currentTask' = Head(q)
         /\ processingQueue' = Tail(q)
         /\ running' = [running EXCEPT ![Head(q)] = @ + 1]
         /\ startLog' = Append(startLog, Head(q))
         /\ hist' = [hist EXCEPT ![Head(q)].execs = @ + 1]
         /\ retrying' = NoTask

\* mutant: processQueue is called whether or not the loop is active
TriggerUnguarded(q) == processQueue(q)

\* "Start processing if not already processing", on the pending list q.
Trigger(q) ==
    IF ShouldStart(isProcessing)
    THEN processQueue(q)
    ELSE /\ processingQueue' = q
         /\ UNCHANGED <<isProcessing, currentTask, running, startLog, hist, retrying>>

\* addToQueue(ctx, handler, options) up to its await or its return.
\* n bounds the number of calls; the result is recorded when addToQueue is in
\* rec, and the position notice it sends (position, estimated wait) when reply is.
addToQueueCalled(n, u, opt, rec) ==
    /\ \E j \in 1 .. n : call[j] = "new"
    /\ LET j == NextId
           q == Enqueue(processingQueue, j)
       IN /\ task' = [task EXCEPT ![j] = [userId |-> u, options |-> opt, attempts |-> 0,
                                           maxAttempts |-> MaxAttemptsOf(opt)]]
          /\ IF ShowsPosition(q)
             THEN /\ call' = [call EXCEPT ![j] = "reply"]
                  /\ processingQueue' = q
                  /\ lastOp' = Recorded(rec, "reply", PositionOf(q), TRUE,
                                        EstimatedWait(PositionOf(q)))
                  /\ UNCHANGED <<isProcessing, currentTask, running, startLog, hist, retrying>>
             ELSE /\ call' = [call EXCEPT ![j] = "done"]
                  /\ Trigger(q)
                  /\ lastOp' = Recorded(rec, "addToQueue", j, TRUE, 0)
    /\ UNCHANGED <<queueStats, replying, timers>>

\* addToQueue called by a caller that is not modelled further
addToQueue(n, u, opt, rec) ==
    /\ addToQueueCalled(n, u, opt, rec)
    /\ UNCHANGED botVars

\* mutant: a job whose position notice failed is taken off the list
AfterFailedNoticeWithdrawn(q, j) == SelectSeq(q, LAMBDA k : k # j)

\* the pending list when the rejection of ctx.reply leaves addToQueue: nothing
\* catches it and nothing undoes the push
AfterFailedNotice(q, j) == q

\* the position reply of addToQueue settles; addToQueue resumes after its await.
\* A reply that fails makes addToQueue reject.
addToQueueResumes(j, delivered, rec) ==
    /\ call[j] = "reply"
    /\ call' = [call EXCEPT ![j] = "done"]
    /\ IF delivered
       THEN Trigger(processingQueue)
       ELSE /\ processingQueue' = AfterFailedNotice(processingQueue, j)
            /\ UNCHANGED <<isProcessing, currentTask, running, startLog, hist, retrying>>
    /\ lastOp' = Recorded(rec, "addToQueue", j, delivered, 0)
    /\ UNCHANGED <<queueStats, task, replying, timers>>
    /\ UNCHANGED botVars

\* mutant: the count is updated and the average is not
StatsAfterSuccessCountOnly(s, d) == [s EXCEPT !.totalProcessed = @ + 1]

\* the statistics update after a successful handler
StatsAfterSuccess(s, d) ==
    [s EXCEPT !.totalProcessed = @ + 1,
              !.averageProcessingTime = RunningAverage(@, s.totalProcessed + 1, d)]

\* mutant: the exhausted job is not counted
StatsAfterExhaustionUncounted(s) == s

\* queueStats.totalFailed++
StatsAfterExhaustion(s) == [s EXCEPT !.totalFailed = @ + 1]

\* mutant: the error of a failed terminal reply escapes processQueue
TimersAfterReplyEscaped(t, delivered) == IF delivered THEN t + 1 ELSE t

\* the timers pending once the try/catch around the terminal reply is left: the
\* catch block logs the error, and setTimeout is reached either way
TimersAfterReply(t, delivered) == t + 1

\* The handler of job j has settled: processQueue resumes after
\* "await currentTask.handler(...)", up to its next await or its end.
\* With currentTask null the log line after the update, and then the log line of
\* the catch block, throw: processQueue rejects and schedules nothing.
processQueueResumes(j, ok, d) ==
    /\ running[j] > 0
    /\ running' = [running EXCEPT ![j] = @ - 1]
    /\ IF ok
       THEN /\ queueStats' = StatsAfterSuccess(queueStats, d)
            /\ hist' = [hist EXCEPT ![j].succ = @ + 1, ![j].time = @ + d]
            /\ timers' = IF currentTask = NoTask THEN timers ELSE timers + 1
            /\ UNCHANGED <<processingQueue, task, replying, retrying>>
       ELSE IF currentTask = NoTask
       THEN UNCHANGED <<queueStats, hist, timers, processingQueue, task, replying, retrying>>
       ELSE LET c == currentTask
                a == task[c].attempts + 1
            IN /\ task' = [task EXCEPT ![c].attempts = a]
               /\ IF ShouldRetry(a, task[c].maxAttempts)
                  THEN /\ processingQueue' = RequeueFront(processingQueue, c)
                       /\ timers' = timers + 1
                       /\ retrying' = c
                       /\ UNCHANGED <<queueStats, hist, replying>>
                  ELSE /\ queueStats' = StatsAfterExhaustion(queueStats)
                       /\ hist' = [hist EXCEPT ![c].termFail = @ + 1, ![c].termMsgs = @ + 1]
                       /\ replying' = replying + 1
                       /\ UNCHANGED <<processingQueue, timers, retrying>>
    /\ UNCHANGED <<isProcessing, currentTask, call, startLog>>

\* The handler of job j resolves (ok) or rejects, whatever the handler is.
HandlerSettles(j, ok, d) ==
    /\ processQueueResumes(j, ok, d)
    /\ lastOp' = NoOp
    /\ UNCHANGED botVars

\* the terminal-failure reply settles (delivered or not): processQueue sets its timer.
TerminalReplySettles(delivered) ==
    /\ replying > 0
    /\ replying' = replying - 1
    /\ timers' = TimersAfterReply(timers, delivered)
    /\ lastOp' = NoOp
    /\ UNCHANGED <<processingQueue, isProcessing, currentTask, queueStats, task, call,
                   running, startLog, hist, retrying>>
    /\ UNCHANGED botVars

\* setTimeout(() => { processQueue(); }, 1000) fires.
TimerFires ==
    /\ timers > 0
    /\ timers' = timers - 1
    /\ processQueue(processingQueue)
    /\ lastOp' = NoOp
    /\ UNCHANGED <<queueStats, task, call, replying>>
    /\ UNCHANGED botVars

\* removeFromQueue(userId)
removeFromQueue(u, rec) ==
    LET q == FilterOwner(processingQueue, task, u)
        removed == Len(processingQueue) # Len(q)
    IN /\ processingQueue' = q
       /\ hist' = [j \in Jobs |->
                     IF j \in Range(processingQueue) /\ j \notin Range(q)
                     THEN [hist[j] EXCEPT !.removed = @ + 1] ELSE hist[j]]
       /\ lastOp' = Recorded(rec, "removeFromQueue", u, removed, 0)
       /\ retrying' = NoTask
       /\ UNCHANGED <<isProcessing, currentTask, queueStats, task, call, running,
                      replying, timers, startLog>>
       /\ UNCHANGED botVars

\* mutant: the first pending job survives the clear
AfterClearKeepsFirst(q) == IF q = <<>> THEN q ELSE <<Head(q)>>

\* processingQueue = []
AfterClear(q) == <<>>

\* clearQueue()
clearQueue(rec) ==
    /\ processingQueue' = AfterClear(processingQueue)
    /\ hist' = [j \in Jobs |->
                  IF j \in Range(processingQueue) /\ j \notin Range(AfterClear(processingQueue))
                  THEN [hist[j] EXCEPT !.removed = @ + 1] ELSE hist[j]]
    /\ lastOp' = Recorded(rec, "clearQueue", 0, FALSE, Len(processingQueue))
    /\ retrying' = NoTask
    /\ UNCHANGED <<isProcessing, currentTask, queueStats, task, call, running,
                   replying, timers, startLog>>
    /\ UNCHANGED botVars

\* what getQueueStats() returns (uptime, which no claim reads, left out)
StatsReturned ==
    [totalProcessed |-> queueStats.totalProcessed,
     totalFailed |-> queueStats.totalFailed,
     averageProcessingTime |-> Floor(queueStats.averageProcessingTime),
     currentQueueLength |-> Len(processingQueue),
     isProcessing |-> isProcessing,
     currentTaskId |-> currentTask]

\* getQueueStats()
getQueueStats(rec) ==
    /\ lastOp' = IF "getQueueStats" \in rec
                 THEN [NoOp EXCEPT !.op = "getQueueStats", !.ok = TRUE,
                                   !.stats = StatsReturned]
                 ELSE NoOp
    /\ UNCHANGED <<processingQueue, isProcessing, currentTask, queueStats, task, call,
                   running, replying, timers, startLog, hist, retrying>>
    /\ UNCHANGED botVars

\* The queue driven through its exported functions: at most n addToQueue calls
\* by owners U with options O, successful executions lasting D, and the calls
\* of the functions in rec recorded in lastOp.
QueueNext(n, U, O, D, rec) ==
    \/ \E u \in U, opt \in O : addToQueue(n, u, opt, rec)
    \/ \E j \in Jobs, delivered \in BOOLEAN : addToQueueResumes(j, delivered, rec)
    \/ \E j \in Jobs, ok \in BOOLEAN, d \in D : HandlerSettles(j, ok, d)
    \/ \E delivered \in BOOLEAN : TerminalReplySettles(delivered)
    \/ TimerFires
    \/ \E u \in U : removeFromQueue(u, rec)
    \/ clearQueue(rec)
    \/ getQueueStats(rec)

\* one owner, default options
Next == QueueNext(MaxJobs, OneUser, {NoOptions}, OneDuration, {})

Spec == Init /\ [][Next]_vars

\* options.maxAttempts varies
NextOptions == QueueNext(OptionJobs, OneUser, OptionsSet, Durations, {})

SpecOptions == Init /\ [][NextOptions]_vars

\* two owners; removals recorded
NextOwners == QueueNext(OwnerJobs, Users, {NoOptions}, OneDuration, {"removeFromQueue"})

SpecOwners == Init /\ [][NextOwners]_vars

\* durations vary; the statistics read by getQueueStats recorded
NextStats == QueueNext(StatsJobs, OneUser, {NoOptions}, Durations, {"getQueueStats"})

SpecStats == Init /\ [][NextStats]_vars

\* a caller that submits its next job when the queue has gone idle
addToQueueWhenIdle(n, u) ==
    /\ ~isProcessing
    /\ addToQueue(n, u, NoOptions, {})

\* the failed handler executions so far
FailedAttempts == SumOver([j \in Jobs |-> task[j].attempts], Jobs)

\* a handler settles, with at most n failing executions in the run
HandlerSettlesWithin(n, j, ok, d) ==
    /\ running[j] > 0
    /\ ok \/ FailedAttempts < n
    /\ HandlerSettles(j, ok, d)

\* a long run of jobs submitted one after the other; durations vary
NextAverage ==
    \/ \E u \in OneUser : addToQueueWhenIdle(AverageJobs, u)
    \/ \E j \in Jobs, ok \in BOOLEAN, d \in Durations :
          HandlerSettlesWithin(MaxFailures, j, ok, d)
    \/ \E delivered \in BOOLEAN : TerminalReplySettles(delivered)
    \/ TimerFires

SpecAverage == Init /\ [][NextAverage]_vars

\* addToQueue, and the position notice it sends, recorded
NextCalls == QueueNext(CallJobs, OneUser, {NoOptions}, OneDuration, {"addToQueue", "reply"})

SpecCalls == Init /\ [][NextCalls]_vars

\* the results of addToQueue and clearQueue recorded; every handler call and
\* every reply settles, every timer fires
NextAdmin == QueueNext(AdminJobs, OneUser, {NoOptions}, OneDuration, {"addToQueue", "clearQueue"})

FairnessAdmin ==
    /\ WF_vars(\E j \in Jobs, delivered \in BOOLEAN :
                 addToQueueResumes(j, delivered, {"addToQueue", "clearQueue"}))
    /\ WF_vars(\E j \in Jobs, ok \in BOOLEAN, d \in OneDuration : HandlerSettles(j, ok, d))
    /\ WF_vars(\E delivered \in BOOLEAN : TerminalReplySettles(delivered))
    /\ WF_vars(TimerFires)

SpecAdmin == Init /\ [][NextAdmin]_vars /\ FairnessAdmin

\* ------------------------------------------------------------------ the bot
\* mutant: the upload handler admits every upload
HasCreditsAlways(doc) == TRUE

\* the negation of "if (ctx.user.freeCredits + ctx.user.paidCredits <= 0)"
HasCredits(doc) == ~(doc.freeCredits + doc.paidCredits <= 0)

\* bot.on(['document', 'photo', 'audio', 'voice']), from the arrival of the
\* update to the return of addToQueue or its await, when no other callback runs
\* in between (the document loaded is the stored one) and resetDailyCredits
\* finds no new day: a user with credits uploads a file and the handler queues
\* processFile for it; without credits the handler replies and returns.
Upload(u) ==
    /\ HasCredits(users[u])
    /\ addToQueue(UploadJobs, u, NoOptions, {})

\* The same handler step by step. An upload of user u arrives: the middleware
\* loads the User document (User.findOne), sets lastActivity and awaits its save.
UploadArrives(k, u) ==
    /\ upload[k].pc = "idle"
    /\ \A i \in Uploads : i < k => upload[i].pc # "idle"
    /\ upload' = [upload EXCEPT ![k] =
            [pc |-> "loaded", userId |-> u,
             freeCredits |-> users[u].freeCredits, paidCredits |-> users[u].paidCredits]]
    /\ UNCHANGED <<session, users, conversion>>
    /\ QueueUntouched

\* the credit check on the document doc the handler holds, and what follows
\* it: addToQueue(ctx, fileHandler.processFile), or the reply that no credits
\* remain and the return
CheckCredits(k, doc, n, rec) ==
    IF HasCredits(doc)
    THEN /\ addToQueueCalled(n, doc.userId, NoOptions, rec)
         /\ upload' = [upload EXCEPT ![k] = [doc EXCEPT !.pc = "admitted"]]
    ELSE /\ upload' = [upload EXCEPT ![k] = [doc EXCEPT !.pc = "rejected"]]
         /\ QueueUntouched

\* The save of the middleware settles. When it failed ctx.user is null and
\* the handler replies and returns (part_000: it throws and its catch block
\* replies). Otherwise resetDailyCredits runs: on a new day it sets freeCredits
\* of the document and awaits the save; else the handler checks the credits.
UploadChecks(k, saved, newDay, n, rec) ==
    /\ upload[k].pc = "loaded"
    /\ IF ~saved
       THEN /\ upload' = [upload EXCEPT ![k].pc = "failed"]
            /\ QueueUntouched
       ELSE IF newDay
       THEN /\ upload' = [upload EXCEPT ![k].freeCredits = DailyFreeCredits,
                                        ![k].pc = "resetting"]
            /\ QueueUntouched
       ELSE CheckCredits(k, upload[k], n, rec)
    /\ UNCHANGED <<session, users, conversion>>

\* the save of resetDailyCredits settles: the freeCredits of the document are
\* stored and the handler checks the credits; when the save failed the catch
\* block of the handler replies
UploadResetSaved(k, saved, n, rec) ==
    /\ upload[k].pc = "resetting"
    /\ IF saved
       THEN /\ users' = [users EXCEPT ![upload[k].userId].freeCredits = upload[k].freeCredits]
            /\ CheckCredits(k, upload[k], n, rec)
       ELSE /\ users' = users
            /\ upload' = [upload EXCEPT ![k].pc = "failed"]
            /\ QueueUntouched
    /\ UNCHANGED <<session, conversion>>

\* the catch block of processFile: with the progress message at hand it edits
\* it into the error message and, when that fails, sends the error message as a
\* reply; without it, it sends the reply. Whether the block is left normally.
CatchBlock(run, hasProgressMsg) ==
    IF hasProgressMsg THEN run.errorEdited \/ run.errorReplied ELSE run.errorReplied

\* mutant: processFile rejects whenever an error occurs
processFileRethrows(run) ==
    [ok |-> run.progress /\ run.analysis # "throws" /\ run.edited,
     stored |-> run.progress /\ run.analysis = "offer"]

\* processFile(ctx, options): whether it resolves (ok) and whether it has
\* stored the file in ctx.session (stored). A refusal (no file info, unknown
\* type, file too large, nothing to convert to) is an edit of the progress
\* message and a return; the offer stores the file and edits the message too.
processFile(run) ==
    IF ~run.progress THEN [ok |-> CatchBlock(run, FALSE), stored |-> FALSE]
    ELSE IF run.analysis = "throws" THEN [ok |-> CatchBlock(run, TRUE), stored |-> FALSE]
    ELSE IF run.edited THEN [ok |-> TRUE, stored |-> run.analysis = "offer"]
    ELSE [ok |-> CatchBlock(run, TRUE), stored |-> run.analysis = "offer"]

\* The queued handler is processFile: the call made for job j settles and
\* processQueue resumes; the file it stored is in the session of the owner.
processFileSettles(j, run, d, rec) ==
    /\ processQueueResumes(j, processFile(run).ok, d)
    /\ lastOp' = IF "processFile" \in rec
                 THEN [NoOp EXCEPT !.op = "processFile", !.arg = j,
                                   !.ok = processFile(run).ok, !.run = run]
                 ELSE NoOp
    /\ session' = IF processFile(run).stored
                  THEN [session EXCEPT ![task[j].userId] = TRUE] ELSE session
    /\ UNCHANGED <<users, conversion, upload>>

\* deductCredit(user) on the loaded document c; the credits it leaves
deductCredit(c) ==
    IF c.paidCredits > 0 THEN [c EXCEPT !.paidCredits = @ - 1]
    ELSE [c EXCEPT !.freeCredits = @ - 1]

\* deductCredit throws 'No credits available'
NoCredits(c) == c.paidCredits <= 0 /\ c.freeCredits <= 0

\* A convert_<format> callback of user u arrives: the middleware loads the User
\* document, and handleConversion returns at once when the session holds no
\* file; otherwise it awaits its first progress message.
handleConversion(c, u) ==
    /\ conversion[c].pc = "idle"
    /\ \A k \in Conversions : k < c => conversion[k].pc # "idle"
    /\ conversion' = [conversion EXCEPT ![c] =
            [pc |-> IF session[u] THEN "progress" ELSE "done", userId |-> u,
             freeCredits |-> users[u].freeCredits, paidCredits |-> users[u].paidCredits]]
    /\ UNCHANGED <<session, users, upload>>
    /\ QueueUntouched

\* the progress message settles; deductCredit changes the loaded document and
\* awaits its save, or throws
handleConversionDeducts(c, edited) ==
    /\ conversion[c].pc = "progress"
    /\ conversion' = [conversion EXCEPT ![c] =
            IF ~edited \/ NoCredits(@) THEN [@ EXCEPT !.pc = "failing"]
            ELSE [deductCredit(@) EXCEPT !.pc = "saving"]]
    /\ UNCHANGED <<session, users, upload>>
    /\ QueueUntouched

\* user.save() of deductCredit settles: the credits of the document are stored;
\* handleConversion goes on to download the file
handleConversionSaved(c, saved) ==
    /\ conversion[c].pc = "saving"
    /\ users' = IF saved
                THEN [users EXCEPT ![conversion[c].userId] =
                        [freeCredits |-> conversion[c].freeCredits,
                         paidCredits |-> conversion[c].paidCredits]]
                ELSE users
    /\ conversion' = [conversion EXCEPT ![c].pc = IF saved THEN "download" ELSE "failing"]
    /\ UNCHANGED <<session, upload>>
    /\ QueueUntouched

\* the download settles; converter.convert(...) is called
handleConversionConverts(c, downloaded) ==
    /\ conversion[c].pc = "download"
    /\ conversion' = [conversion EXCEPT ![c].pc = IF downloaded THEN "converting" ELSE "failing"]
    /\ UNCHANGED <<session, users, upload>>
    /\ QueueUntouched

\* converter.convert settles; the result is uploaded and the history saved
handleConversionConverted(c, converted) ==
    /\ conversion[c].pc = "converting"
    /\ conversion' = [conversion EXCEPT ![c].pc = IF converted THEN "upload" ELSE "failing"]
    /\ UNCHANGED <<session, users, upload>>
    /\ QueueUntouched

\* the upload and the final messages, or the catch block, are through: the
\* finally block clears the session
handleConversionEnds(c) ==
    /\ conversion[c].pc \in {"upload", "failing"}
    /\ conversion' = [conversion EXCEPT ![c].pc = "done"]
    /\ session' = [session EXCEPT ![conversion[c].userId] = FALSE]
    /\ UNCHANGED <<users, upload>>
    /\ QueueUntouched

\* the queue as the bot drives it: uploads queue processFile, /cancel calls
\* removeFromQueue, the admin command calls clearQueue, and the format buttons
\* call handleConversion
NextBot ==
    \/ \E u \in Users : Upload(u)
    \/ \E j \in Jobs, delivered \in BOOLEAN : addToQueueResumes(j, delivered, {})
    \/ \E j \in Jobs, run \in OutcomeRuns, d \in OneDuration :
          processFileSettles(j, run, d, {})
    \/ \E delivered \in BOOLEAN : TerminalReplySettles(delivered)
    \/ TimerFires
    \/ \E u \in Users : removeFromQueue(u, {})
    \/ clearQueue({})
    \/ \E c \in Conversions, u \in Users : handleConversion(c, u)
    \/ \E c \in Conversions, edited \in BOOLEAN : handleConversionDeducts(c, edited)
    \/ \E c \in Conversions, saved \in BOOLEAN : handleConversionSaved(c, saved)
    \/ \E c \in Conversions, downloaded \in BOOLEAN : handleConversionConverts(c, downloaded)
    \/ \E c \in Conversions, converted \in BOOLEAN : handleConversionConverted(c, converted)
    \/ \E c \in Conversions : handleConversionEnds(c)

SpecBot == Init /\ [][NextBot]_vars

\* one user's uploads step by step, and the conversions that use up the credits
NextUploads ==
    \/ \E k \in Uploads, u \in OneUser : UploadArrives(k, u)
    \/ \E k \in Uploads, saved \in BOOLEAN, newDay \in BOOLEAN :
          UploadChecks(k, saved, newDay, MaxUploads, {})
    \/ \E k \in Uploads, saved \in BOOLEAN : UploadResetSaved(k, saved, MaxUploads, {})
    \/ \E j \in Jobs, delivered \in BOOLEAN : addToQueueResumes(j, delivered, {})
    \/ \E j \in Jobs, run \in OutcomeRuns, d \in OneDuration :
          processFileSettles(j, run, d, {})
    \/ \E delivered \in BOOLEAN : TerminalReplySettles(delivered)
    \/ TimerFires
    \/ \E c \in OneConversion, u \in OneUser : handleConversion(c, u)
    \/ \E c \in OneConversion, edited \in BOOLEAN : handleConversionDeducts(c, edited)
    \/ \E c \in OneConversion, saved \in BOOLEAN : handleConversionSaved(c, saved)
    \/ \E c \in OneConversion, downloaded \in BOOLEAN :
          handleConversionConverts(c, downloaded)
    \/ \E c \in OneConversion, converted \in BOOLEAN :
          handleConversionConverted(c, converted)
    \/ \E c \in OneConversion : handleConversionEnds(c)

SpecUploads == Init /\ [][NextUploads]_vars

\* the uploads of one user queued and analysed, the processFile calls recorded
NextAnalysis ==
    \/ \E u \in OneUser : Upload(u)
    \/ \E j \in Jobs, delivered \in BOOLEAN : addToQueueResumes(j, delivered, {"processFile"})
    \/ \E j \in Jobs, run \in ProcessFileRuns, d \in OneDuration :
          processFileSettles(j, run, d, {"processFile"})
    \/ \E delivered \in BOOLEAN : TerminalReplySettles(delivered)
    \/ TimerFires

SpecAnalysis == Init /\ [][NextAnalysis]_vars

\* fairness: every handler call and every reply settles, every timer fires
Fairness ==
    /\ WF_vars(\E j \in Jobs, delivered \in BOOLEAN : addToQueueResumes(j, delivered, {}))
    /\ WF_vars(\E j \in Jobs, ok \in BOOLEAN, d \in OneDuration : HandlerSettles(j, ok, d))
    /\ WF_vars(\E delivered \in BOOLEAN : TerminalReplySettles(delivered))
    /\ WF_vars(TimerFires)

SpecLive == Init /\ [][Next]_vars /\ Fairness

\* ------------------------------------------------------------ derived state
\* handler executions started by processQueue and not yet settled
HandlersInProgress == SumOver(running, Jobs)

\* processQueue chains alive: awaiting a handler, awaiting the terminal reply,
\* or waiting for their timer
ActiveChains == HandlersInProgress + replying + timers

Admitted(j) == call[j] # "new"

\* converter.convert calls in progress
ConversionsInProgress == Cardinality({c \in Conversions : conversion[c].pc = "converting"})

SuspendedCalls == {j \in Jobs : call[j] = "reply"}

NoFailureNoRemoval ==
    \A j \in Jobs : task[j].attempts = 0 /\ hist[j].termFail = 0 /\ hist[j].removed = 0

Resolutions(j) == hist[j].succ + hist[j].termFail + hist[j].removed

\* the position of job j in the list q
PositionIn(q, j) == CHOOSE i \in 1 .. Len(q) : q[i] = j

\* the jobs of q2 are jobs of q, each once, in the order they have in q
IsOrderedSublist(q2, q) ==
    /\ Range(q2) \subseteq Range(q)
    /\ \A a, b \in 1 .. Len(q2) : a < b => PositionIn(q, q2[a]) < PositionIn(q, q2[b])

TypeOK ==
    /\ Range(processingQueue) \subseteq Jobs
    /\ isProcessing \in BOOLEAN
    /\ currentTask \in Jobs \cup {NoTask}
    /\ call \in [Jobs -> {"new", "reply", "done"}]
    /\ running \in [Jobs -> Nat]
    /\ replying \in Nat
    /\ timers \in Nat

\* ===================================================================== claims

\* C1: at most one handler execution started by processQueue is in progress at
\* any time: the count of invoked and not yet settled handlers never exceeds 1.
C1_AtMostOneHandler == HandlersInProgress <= 1

\* a handler runs while jobs are pending and an addToQueue call is suspended
C1_Witness ==
    /\ HandlersInProgress = 1
    /\ Len(processingQueue) >= 2
    /\ SuspendedCalls # {}

\* C2: at most one processQueue chain is ever alive, also with several
\* addToQueue calls suspended in their reply; an addToQueue call on an empty
\* idle queue starts exactly one chain, and a call made while a chain is alive
\* starts none.
C2_SingleLoop ==
    /\ [](ActiveChains <= 1)
    /\ [][\A j \in Jobs :
            (call[j] = "new" /\ call'[j] # "new") =>
                ActiveChains' = (IF ActiveChains = 0 /\ processingQueue = <<>> /\ ~isProcessing
                                 THEN 1 ELSE ActiveChains)]_vars

\* two addToQueue calls are suspended at once while a chain is alive
C2_Witness ==
    /\ Cardinality(SuspendedCalls) >= 2
    /\ ActiveChains = 1

\* C3: no two format conversions (converter.convert called by handleConversion)
\* run at the same time.
C3_ConversionsSerialized == ConversionsInProgress <= 1

\* C4: while no handler has failed and no job was removed or cleared, the
\* handlers are started in the order in which addToQueue appended the jobs:
\* the i-th execution is the i-th job pushed.
C4_FifoOrder ==
    NoFailureNoRemoval => \A i \in 1 .. Len(startLog) : startLog[i] = i

\* three jobs were executed one after the other, none failed or was removed
C4_Witness ==
    /\ NoFailureNoRemoval
    /\ startLog = <<1, 2, 3>>
    /\ queueStats.totalProcessed = 3

\* C5: a job put back for a retry is at the front of the pending list, stays
\* there through the cooldown, and is the next job whose handler is started
\* (no removeFromQueue/clearQueue call in between).
C5_RetryFirst ==
    /\ [](retrying # NoTask =>
            /\ processingQueue # <<>>
            /\ Head(processingQueue) = retrying
            /\ task[retrying].attempts < task[retrying].maxAttempts)
    /\ [][(retrying # NoTask /\ Len(startLog') > Len(startLog)) =>
            startLog'[Len(startLog')] = retrying]_vars

\* job 1 failed with jobs 2 and 3 admitted, and was executed again before them
C5_Witness ==
    /\ startLog = <<1, 1>>
    /\ processingQueue = <<2, 3>>
    /\ task[1].attempts = 1

\* C6: a job with maxAttempts = 3 that never succeeds is executed at most 3
\* times; once it failed 3 times it was executed exactly 3 times, is not
\* pending and not executing, one terminal-failure message was sent to its
\* owner and it added exactly 1 to totalFailed, which counts the terminal
\* failures and nothing else.
C6_RetryExhaustion ==
    /\ queueStats.totalFailed = SumOver([j \in Jobs |-> hist[j].termFail], Jobs)
    /\ \A j \in Jobs :
          (Admitted(j) /\ task[j].maxAttempts = 3 /\ hist[j].succ = 0) =>
             /\ hist[j].execs <= 3
             /\ hist[j].termFail = (IF task[j].attempts = 3 THEN 1 ELSE 0)
             /\ hist[j].termMsgs = hist[j].termFail
             /\ task[j].attempts = 3 =>
                   /\ hist[j].execs = 3
                   /\ j \notin Range(processingQueue)
                   /\ running[j] = 0

\* a job failed three times and the loop went on to the next job
C6_Witness ==
    \E j \in Jobs :
        /\ task[j].maxAttempts = 3 /\ task[j].attempts = 3 /\ hist[j].execs = 3
        /\ queueStats.totalFailed = 1
        /\ \E k \in Jobs : k # j /\ running[k] = 1

\* C7 as stated: for every supplied options.maxAttempts (default 3 when none is
\* supplied) the job's maxAttempts is the supplied value, attempts <= maxAttempts,
\* and a job whose attempts reached maxAttempts is not pending.
C7_AnySuppliedValue ==
    \A j \in Jobs : Admitted(j) =>
        /\ task[j].maxAttempts =
              (IF task[j].options.has THEN task[j].options.maxAttempts ELSE DefaultMaxAttempts)
        /\ task[j].attempts <= task[j].maxAttempts
        /\ task[j].attempts >= task[j].maxAttempts => j \notin Range(processingQueue)

\* C7 (amended): for every positive options.maxAttempts supplied, the job's
\* maxAttempts is the supplied value, and it is the default 3 when none or 0 is
\* supplied; maxAttempts never changes; for these jobs attempts <= maxAttempts
\* in every state and a job whose attempts reached maxAttempts is not pending.
C7_PositiveMaxAttempts ==
    /\ [](\A j \in Jobs : Admitted(j) =>
            LET o == task[j].options IN
            /\ (o.has /\ o.maxAttempts > 0) => task[j].maxAttempts = o.maxAttempts
            /\ (~o.has \/ o.maxAttempts = 0) => task[j].maxAttempts = DefaultMaxAttempts
            /\ (~o.has \/ o.maxAttempts >= 0) =>
                  /\ task[j].attempts <= task[j].maxAttempts
                  /\ task[j].attempts >= task[j].maxAttempts =>
                        j \notin Range(processingQueue))
    /\ [][\A j \in Jobs : Admitted(j) =>
            /\ task'[j].maxAttempts = task[j].maxAttempts
            /\ task'[j].options = task[j].options]_vars

\* a job admitted with maxAttempts 2 failed twice, which exhausted it
C7_Witness ==
    \E j \in Jobs :
        /\ task[j].options = [has |-> TRUE, maxAttempts |-> 2]
        /\ task[j].attempts = 2
        /\ hist[j].termFail = 1

\* C8: no job is at once in the pending list and referenced by currentTask.
C8_OneLocation ==
    currentTask # NoTask => currentTask \notin Range(processingQueue)

\* C9: a job has at most one resolution (success, terminal failure, removal),
\* a resolved job is neither pending nor executing, and every job appended by
\* addToQueue is eventually resolved.
C9_NoJobLost ==
    /\ [](\A j \in Jobs :
            /\ Resolutions(j) <= 1
            /\ Resolutions(j) = 1 => (j \notin Range(processingQueue) /\ running[j] = 0))
    /\ \A j \in Jobs : Admitted(j) ~> (Resolutions(j) = 1)

\* the three kinds of resolution have happened
C9_Witness ==
    /\ \E j \in Jobs : hist[j].succ = 1
    /\ \E j \in Jobs : hist[j].termFail = 1
    /\ \E j \in Jobs : hist[j].removed = 1

\* C10: removeFromQueue(u) leaves in the pending list exactly the jobs of other
\* owners, in their order, returns true iff a pending job was owned by u, and
\* changes nothing else: neither the executing job nor the loop.
C10_RemoveByOwner ==
    [][lastOp'.op = "removeFromQueue" =>
        LET u == lastOp'.arg IN
        /\ \A j \in Range(processingQueue') : task[j].userId # u
        /\ \A j \in Range(processingQueue) :
               task[j].userId # u => j \in Range(processingQueue')
        /\ IsOrderedSublist(processingQueue', processingQueue)
        /\ lastOp'.ok <=> (\E j \in Range(processingQueue) : task[j].userId = u)
        /\ UNCHANGED <<isProcessing, currentTask, queueStats, task, call, running,
                       replying, timers, startLog>>]_vars

\* a call removed a pending job of an owner whose other job is executing, and
\* left a job of the other owner pending
C10_Witness ==
    /\ lastOp.op = "removeFromQueue" /\ lastOp.ok
    /\ processingQueue # <<>>
    /\ \E j \in Jobs : running[j] = 1 /\ task[j].userId = lastOp.arg

\* C11: once the handler of a job has been started, no removeFromQueue or
\* clearQueue call removes the job: a job that was executed is never removed,
\* also not in the cooldown after a failed attempt.
C11_NoCancelAfterDequeue ==
    \A j \in Jobs : hist[j].execs > 0 => hist[j].removed = 0

\* the jobs whose handler settles in the step
SettledInStep == {j \in Jobs : running'[j] < running[j]}

\* the jobs whose attempts the step counts up (the catch block of processQueue)
FailedInStep == {j \in Jobs : task'[j].attempts > task[j].attempts}

CountersUnchanged ==
    /\ queueStats'.totalProcessed = queueStats.totalProcessed
    /\ queueStats'.totalFailed = queueStats.totalFailed

\* C12: a step in which a handler succeeds adds 1 to totalProcessed and leaves
\* totalFailed; the failure that exhausts maxAttempts adds 1 to totalFailed and
\* leaves totalProcessed; a failure that is retried changes neither; every
\* other step (addToQueue, removeFromQueue, clearQueue, getQueueStats, timers,
\* replies) changes neither; the counters never decrease.
C12_CountersPerOutcome ==
    [][/\ queueStats'.totalProcessed >= queueStats.totalProcessed
       /\ queueStats'.totalFailed >= queueStats.totalFailed
       /\ IF SettledInStep = {} THEN CountersUnchanged
          ELSE IF FailedInStep = {}
          THEN /\ queueStats'.totalProcessed = queueStats.totalProcessed + 1
               /\ queueStats'.totalFailed = queueStats.totalFailed
          ELSE \A j \in FailedInStep :
                  IF task'[j].attempts < task'[j].maxAttempts
                  THEN CountersUnchanged
                  ELSE /\ queueStats'.totalFailed = queueStats.totalFailed + 1
                       /\ queueStats'.totalProcessed = queueStats.totalProcessed
       /\ lastOp'.op = "getQueueStats" => UNCHANGED queueStats]_vars

\* one job succeeded, one exhausted its attempts, a third failed once and is
\* pending for its retry, and the statistics were read
C12_Witness ==
    /\ queueStats.totalProcessed = 1
    /\ queueStats.totalFailed = 1
    /\ \E j \in Range(processingQueue) : task[j].attempts = 1
    /\ lastOp.op = "getQueueStats"

\* the successful executions so far, and the sum of their durations
Successes == SumOver([j \in Jobs |-> hist[j].succ], Jobs)

SumOfDurations == SumOver([j \in Jobs |-> hist[j].time], Jobs)

\* (d1 + ... + dn) / n as a JavaScript number: the mean, rounded once
MeanOfDurations ==
    IF Successes = 0 THEN DoubleOf(0) ELSE DoubleOver(DoubleOf(SumOfDurations), Successes)

\* |x * n - total| < 2^-26, that is |x - total / n| < 2^-26 / n
NearMean(x, n, total) ==
    LET t == Times(x, n)
    IN \/ t[1] = total /\ t[2] = 0
       \/ t[1] = total - 1 /\ t[2] = Limb - 1

\* C13 as stated: after n successful executions the stored
\* averageProcessingTime equals the arithmetic mean of their durations,
\* whatever failed attempts are interleaved.
C13_AverageIsMean ==
    /\ queueStats.totalProcessed = Successes
    /\ queueStats.averageProcessingTime = MeanOfDurations

\* C13 (amended): the stored averageProcessingTime is computed from the n
\* successful executions alone (a failed attempt contributes no sample); it
\* equals their arithmetic mean, rounded to a JavaScript number, for n <= 7,
\* and from the 8th success on it may differ from the mean by the rounding
\* errors of the recurrence, here by less than 2^-26 ms.
C13_AverageNearMean ==
    /\ queueStats.totalProcessed = Successes
    /\ Successes <= 7 => queueStats.averageProcessingTime = MeanOfDurations
    /\ Successes > 0 =>
          NearMean(queueStats.averageProcessingTime, Successes, SumOfDurations)

\* eight successes with failed attempts in between: the stored average is not
\* the mean
C13_Witness ==
    /\ queueStats.totalProcessed = 8
    /\ FailedAttempts > 0
    /\ queueStats.averageProcessingTime # MeanOfDurations

\* job 1 is the only job ever submitted and its handler never fails
OnlyOneJobAlwaysSucceeding ==
    /\ call[2] = "new"
    /\ \A j \in Jobs : task[j].attempts = 0

\* what getQueueStats() reports once the single job is through
OneProcessedAndIdle ==
    /\ StatsReturned.totalProcessed = 1
    /\ StatsReturned.currentQueueLength = 0
    /\ StatsReturned.isProcessing = FALSE

\* C14: when one job with an always-succeeding handler is submitted to the
\* empty idle queue and nothing else is submitted, then eventually, and from
\* then on forever, getQueueStats() reports totalProcessed = 1,
\* currentQueueLength = 0 and isProcessing = false.
C14_OneJobCompletes ==
    ([]OnlyOneJobAlwaysSucceeding /\ <>Admitted(1)) => <>[]OneProcessedAndIdle

\* the single job has succeeded and the loop has gone idle
C14_Witness ==
    /\ OnlyOneJobAlwaysSucceeding
    /\ hist[1].succ = 1
    /\ OneProcessedAndIdle
    /\ timers = 0

\* C15: a failing handler never ends the loop. The step in which a handler
\* fails either sets the timer of the next iteration (retry) or awaits the
\* terminal reply; when that reply settles, delivered or not, the timer is set;
\* so a loop is alive whenever jobs are pending, and every pending job is
\* eventually executed (or removed by removeFromQueue/clearQueue).
C15_LoopSurvivesFailure ==
    /\ [][FailedInStep # {} => timers' + replying' = timers + replying + 1]_vars
    /\ [][replying' < replying => timers' = timers + 1]_vars
    /\ [](processingQueue # <<>> => ActiveChains = 1)
    /\ \A j \in Jobs :
          (j \in Range(processingQueue)) ~> (running[j] > 0 \/ hist[j].removed > 0)

\* after the terminal failure of one job, and the failed first attempt of the
\* next, the loop executes that job again while a third is pending
C15_Witness ==
    \E j, k \in Jobs :
        /\ hist[j].termFail = 1
        /\ task[k].attempts = 1 /\ running[k] = 1
        /\ processingQueue # <<>>

\* the job has failed, and as often as its maxAttempts allows
Exhausted(j) ==
    /\ Admitted(j)
    /\ task[j].attempts > 0
    /\ task[j].attempts >= task[j].maxAttempts

\* C16: the loop sends the terminal-failure message once for each job that
\* has exhausted its attempts and none for any other job: the step in which a
\* failure exhausts a job is the step, and the only step, that sends one; a
\* failure that is retried and a success send none.
C16_TerminalMessageOnce ==
    /\ [](\A j \in Jobs : hist[j].termMsgs = (IF Exhausted(j) THEN 1 ELSE 0))
    /\ [][(replying' > replying) <=>
             (\E j \in FailedInStep : task'[j].attempts >= task'[j].maxAttempts)]_vars
    /\ [][replying' <= replying + 1]_vars

\* one job exhausted its attempts and got its message; another failed once,
\* then succeeded, and got none
C16_Witness ==
    \E j, k \in Jobs :
        /\ Exhausted(j) /\ hist[j].termMsgs = 1
        /\ hist[k].succ = 1 /\ task[k].attempts >= 1 /\ hist[k].termMsgs = 0

\* C17: a notification that cannot be delivered is swallowed: addToQueue
\* returns the job id whether or not its position notice was delivered (and
\* the loop continues after a terminal reply that failed).
C17_NoticeFailureSwallowed ==
    lastOp.op = "addToQueue" => lastOp.ok

\* the jobs whose addToQueue call starts in the step
AdmittedInStep == {j \in Jobs : call[j] = "new" /\ call'[j] # "new"}

\* C18: addToQueue sends the position notice iff the pending list holds more
\* than one job once the new job is appended; the position it reports is the
\* number of pending jobs ahead of the new job, the wait 30 s times that; a
\* job appended to the empty pending list gets no notice, also while another
\* job is executing.
C18_PositionNotice ==
    [][\A j \in AdmittedInStep :
          LET ahead == Len(processingQueue)
          IN /\ (call'[j] = "reply") <=> (ahead >= 1)
             /\ (lastOp'.op = "reply") <=> (ahead >= 1)
             /\ ahead >= 1 =>
                   /\ processingQueue' = Append(processingQueue, j)
                   /\ lastOp'.arg = ahead
                   /\ lastOp'.count = 30 * ahead]_vars

\* job 2 was appended to the empty list while job 1 was executing and got no
\* notice; job 3 is told position 1 and a wait of 30 s
C18_Witness ==
    /\ running[1] = 1 /\ hist[1].execs = 1
    /\ processingQueue = <<2, 3>>
    /\ call[2] = "done" /\ call[3] = "reply"
    /\ lastOp.op = "reply" /\ lastOp.arg = 1 /\ lastOp.count = 30

\* C19: the append and the idle check of an addToQueue call are one atomic
\* step: while a call stands between its append and its check, the only step
\* that happens is its own check.
C19_AppendAndCheckAtomic ==
    [][\A j \in Jobs : call[j] = "reply" => call'[j] = "done"]_vars

\* the count and the stored average after the successes among jobs 1 .. j,
\* each taken in by one update, in the order of the jobs
RECURSIVE SamplesUpTo(_)
SamplesUpTo(j) ==
    IF j = 0 THEN [n |-> 0, avg |-> DoubleOf(0)]
    ELSE LET p == SamplesUpTo(j - 1)
         IN IF hist[j].succ = 1
            THEN [n |-> p.n + 1, avg |-> RunningAverage(p.avg, p.n + 1, hist[j].time)]
            ELSE p

LastJob == CHOOSE j \in Jobs : \A k \in Jobs : k <= j

\* C20: no increment is lost (totalProcessed and totalFailed count every
\* success and every terminal failure), and every getQueueStats() call returns
\* a count n together with the (floored) average as of exactly the n-th
\* success, wherever the call falls between the steps of the loop.
C20_ConsistentStats ==
    /\ queueStats.totalProcessed = Successes
    /\ queueStats.totalFailed = SumOver([j \in Jobs |-> hist[j].termFail], Jobs)
    /\ lastOp.op = "getQueueStats" =>
          /\ lastOp.stats.totalProcessed = SamplesUpTo(LastJob).n
          /\ lastOp.stats.totalProcessed = Successes
          /\ lastOp.stats.averageProcessingTime = Floor(SamplesUpTo(LastJob).avg)
          /\ lastOp.stats.totalFailed = queueStats.totalFailed

\* the statistics are read while the third job executes, after successes of
\* 100 ms and 200 ms
C20_Witness ==
    /\ lastOp.op = "getQueueStats"
    /\ lastOp.stats.totalProcessed = 2
    /\ lastOp.stats.averageProcessingTime = 150
    /\ lastOp.stats.isProcessing
    /\ HandlersInProgress = 1

\* C21: clearQueue() empties the pending list and returns the number of jobs
\* it dropped; it sends no message and leaves the executing job, the busy flag,
\* the counters and the loop as they are; the handler in progress settles as
\* ever, and every job pending later on is still started (unless dropped too).
C21_ClearQueueFrame ==
    /\ [][lastOp'.op = "clearQueue" =>
            /\ processingQueue' = <<>>
            /\ lastOp'.count = Len(processingQueue)
            /\ \A j \in Jobs :
                  hist'[j].removed =
                     hist[j].removed + (IF j \in Range(processingQueue) THEN 1 ELSE 0)
            /\ \A j \in Jobs : hist'[j].termMsgs = hist[j].termMsgs
            /\ UNCHANGED <<isProcessing, currentTask, queueStats, task, call, running,
                           replying, timers, startLog>>]_vars
    /\ \A j \in 1 .. AdminJobs :
          (lastOp.op = "clearQueue" /\ running[j] > 0) ~> (running[j] = 0)
    /\ \A j \in 1 .. AdminJobs :
          (j \in Range(processingQueue)) ~> (running[j] > 0 \/ hist[j].removed > 0)

\* clearQueue() dropped the pending job 2 while job 1 was executing
C21_Witness ==
    /\ lastOp.op = "clearQueue" /\ lastOp.count = 1
    /\ hist[2].removed = 1
    /\ processingQueue = <<>>
    /\ running[1] = 1
    /\ isProcessing

\* C23: whenever no handler is executing (cooldown or idle) the current-job
\* reference is null, and so is the currentTaskId that getQueueStats() returns.
C23_CurrentTaskCleared ==
    HandlersInProgress = 0 =>
        /\ currentTask = NoTask
        /\ StatsReturned.currentTaskId = NoTask

\* an addToQueue call is between its append and its trigger
CallsSuspended == {j \in Jobs : call[j] = "reply"}

\* C24: whenever the busy flag is clear and no addToQueue call is between its
\* append and its trigger, the pending list is empty; and an addToQueue call made
\* in such a state raises the flag and starts the handler of its job before it
\* returns, with no notice sent and no timer set or awaited.
C24_IdleMeansEmpty ==
    /\ [](~isProcessing /\ CallsSuspended = {} => processingQueue = <<>>)
    /\ [][~isProcessing /\ CallsSuspended = {} =>
            \A j \in AdmittedInStep :
                /\ isProcessing'
                /\ currentTask' = j
                /\ running'[j] = 1
                /\ startLog' = Append(startLog, j)
                /\ call'[j] = "done"
                /\ lastOp' = [NoOp EXCEPT !.op = "addToQueue", !.arg = j, !.ok = TRUE]
                /\ processingQueue' = <<>>
                /\ timers' = timers /\ timers = 0]_vars

\* the queue went idle after job 1, and the addToQueue call of job 2 has just
\* returned with the handler of job 2 started
C24_Witness ==
    /\ lastOp.op = "addToQueue" /\ lastOp.arg = 2 /\ lastOp.ok
    /\ hist[1].succ = 1
    /\ running[2] = 1
    /\ timers = 0
    /\ isProcessing

\* a handler is invoked in the step
StartedInStep == Len(startLog') > Len(startLog)

\* the step is the firing of a cooldown timer
TimerFiredInStep == timers' = timers - 1

\* C25: the cooldown timer fires between the end of one handler execution and
\* the start of the next: once an execution is over the loop holds a pending
\* timer (or is on its way to set it) for as long as the flag is set, only a
\* firing timer clears the flag, and a handler starts only in the step of a
\* firing timer or in an addToQueue call on a queue with the flag clear and no
\* timer pending. A job admitted during the cooldown waits for the timer.
C25_CooldownBetweenExecutions ==
    /\ [](startLog # <<>> /\ HandlersInProgress = 0 /\ isProcessing => timers + replying = 1)
    /\ [][isProcessing /\ ~isProcessing' => TimerFiredInStep]_vars
    /\ [][StartedInStep =>
            \/ TimerFiredInStep
            \/ /\ ~isProcessing /\ timers = 0 /\ replying = 0 /\ HandlersInProgress = 0
               /\ AdmittedInStep # {}]_vars
    /\ [][AdmittedInStep # {} /\ timers > 0 => ~StartedInStep]_vars

\* job 2 was admitted into the empty pending list during the cooldown after
\* job 1 and waits for the timer
C25_Witness ==
    /\ hist[1].succ = 1
    /\ HandlersInProgress = 0
    /\ timers = 1
    /\ call[2] = "done"
    /\ processingQueue = <<2>>
    /\ hist[2].execs = 0

\* the jobs appended by addToQueue so far
Appended == Cardinality({j \in Jobs : call[j] # "new"})

\* the jobs dropped by removeFromQueue and clearQueue so far
Dropped == SumOver([j \in Jobs |-> hist[j].removed], Jobs)

\* the jobs the loop has shifted off the list and whose handler it awaits
HeldByLoop == Cardinality({j \in Jobs : running[j] > 0 /\ j \notin Range(processingQueue)})

\* C26: the number of jobs appended by addToQueue equals totalProcessed +
\* totalFailed + the jobs dropped by removeFromQueue/clearQueue + the length of
\* the pending list + the jobs held by the loop and not in the pending list.
C26_JobAccounting ==
    Appended = queueStats.totalProcessed + queueStats.totalFailed + Dropped
               + Len(processingQueue) + HeldByLoop

\* job 1 was processed, job 2 dropped, job 3 is executing
C26_Witness ==
    /\ queueStats.totalProcessed = 1 /\ hist[1].succ = 1
    /\ hist[2].removed = 1
    /\ running[3] = 1
    /\ Appended = 3

\* C27: getQueueStats().isProcessing is true exactly when a handler is
\* executing, the terminal failure of one is being handled, or a cooldown timer
\* is pending; the flag turns false only in the step of a timer that fires on
\* an empty pending list.
C27_BusyFlag ==
    /\ [](isProcessing <=> HandlersInProgress + replying + timers > 0)
    /\ [](lastOp.op = "getQueueStats" => lastOp.stats.isProcessing = isProcessing)
    /\ [][isProcessing /\ ~isProcessing' =>
            /\ TimerFiredInStep
            /\ HandlersInProgress = 0 /\ replying = 0
            /\ processingQueue = <<>> /\ processingQueue' = <<>>]_vars

\* getQueueStats() reports the flag set during the cooldown after the last
\* job: nothing is executing and the pending list is empty
C27_Witness ==
    /\ lastOp.op = "getQueueStats" /\ lastOp.stats.isProcessing
    /\ lastOp.stats.currentQueueLength = 0
    /\ queueStats.totalProcessed = 1
    /\ HandlersInProgress = 0 /\ replying = 0
    /\ timers = 1

\* C28: when the position reply of addToQueue fails, addToQueue rejects (no
\* job id is returned) and the job, appended before the reply was sent, stays
\* where it is: the rejection changes neither the pending list nor the loop,
\* and the job is executed by the loop like any other (unless a later
\* removeFromQueue/clearQueue call drops it).
C28_RejectedJobStaysQueued ==
    /\ [][lastOp'.op = "addToQueue" /\ ~lastOp'.ok =>
            /\ call[lastOp'.arg] = "reply"
            /\ \/ lastOp'.arg \in Range(processingQueue)
               \/ hist[lastOp'.arg].execs > 0
               \/ hist[lastOp'.arg].removed > 0
            /\ UNCHANGED <<processingQueue, isProcessing, currentTask, queueStats, task,
                           running, replying, timers, startLog, hist>>]_vars
    /\ \A j \in 1 .. AdminJobs :
          (lastOp.op = "addToQueue" /\ ~lastOp.ok /\ lastOp.arg = j)
             ~> (hist[j].execs > 0 \/ hist[j].removed > 0)

\* addToQueue has just rejected for job 2, which is pending behind job 1
C28_Witness ==
    /\ lastOp.op = "addToQueue" /\ ~lastOp.ok /\ lastOp.arg = 2
    /\ processingQueue = <<1, 2>>
    /\ hist[2].execs = 0
    /\ timers = 1

\* freeCredits + paidCredits of the stored User document of u
StoredCredits(u) == users[u].freeCredits + users[u].paidCredits

\* C30: whatever the interleaving of a user's conversion callbacks, the stored
\* freeCredits and paidCredits never become negative, every conversion that
\* passes deductCredit (its save resolved) lowers the stored total of its user
\* by exactly 1, and a deductCredit that throws for lack of credits changes
\* nothing.
C30_CreditsBoundConversions ==
    /\ [](\A u \in Users : users[u].freeCredits >= 0 /\ users[u].paidCredits >= 0)
    /\ [][\A c \in Conversions :
            conversion[c].pc = "saving" /\ conversion'[c].pc = "download" =>
                /\ users'[conversion[c].userId].freeCredits
                      + users'[conversion[c].userId].paidCredits
                   = StoredCredits(conversion[c].userId) - 1]_vars
    /\ [][\A c \in Conversions :
            conversion[c].pc = "progress" /\ NoCredits(conversion[c])
               /\ conversion'[c].pc # "progress" => users' = users]_vars

\* the upload k leaves its credit check in the step
CheckedInStep(k) ==
    /\ upload[k].pc \in {"loaded", "resetting"}
    /\ upload'[k].pc \in {"admitted", "rejected"}

\* C22: an upload is admitted to the queue (addToQueue is called for it) only
\* if freeCredits + paidCredits of the uploading user, as the handler reads them
\* from ctx.user when it makes the check, is greater than 0; when it is 0 or
\* less addToQueue is not called and the pending list (with the rest of the
\* queue) is unchanged. A job is appended only for an upload that passed.
C22_CreditsGateAdmission ==
    /\ [][\A k \in Uploads : CheckedInStep(k) =>
            IF upload'[k].freeCredits + upload'[k].paidCredits > 0
            THEN /\ upload'[k].pc = "admitted"
                 /\ \E j \in AdmittedInStep :
                       /\ task'[j].userId = upload[k].userId
                       /\ AdmittedInStep = {j}
                       /\ processingQueue' \in {Append(processingQueue, j), <<>>}
            ELSE /\ upload'[k].pc = "rejected"
                 /\ AdmittedInStep = {}
                 /\ UNCHANGED queueVars]_vars
    /\ [][AdmittedInStep # {} => \E k \in Uploads : CheckedInStep(k) /\ upload'[k].pc = "admitted"]_vars
    /\ [][\A k \in Uploads : upload[k].pc \in {"loaded", "resetting"} /\ upload'[k].pc = "failed"
             => AdmittedInStep = {} /\ UNCHANGED queueVars]_vars

\* the first upload was admitted and a conversion has used the credit: the
\* second upload, which found no credits, was refused, and no job was appended
C22_Witness ==
    /\ upload[1].pc = "admitted"
    /\ upload[2].pc = "rejected"
    /\ upload[2].freeCredits + upload[2].paidCredits = 0
    /\ call[1] # "new" /\ call[2] = "new"

\* an error is thrown inside the try block of the recorded processFile call
ErrorInRun(run) == ~run.progress \/ run.analysis = "throws" \/ ~run.edited

\* the error message of the catch block reaches the user
ErrorReported(run) == run.errorEdited \/ run.errorReplied

\* C29: processFile contains its own errors. The call rejects, and the queue
\* counts a failed attempt (and retries, or gives the job up), only when an
\* error occurred and its report could not be delivered either; every other
\* outcome, a refusal of the file included, is counted as a success in
\* totalProcessed, with no attempt counted and the job not put back.
C29_ProcessFileContainsErrors ==
    [][lastOp'.op = "processFile" =>
         LET j == lastOp'.arg
             run == lastOp'.run
         IN /\ ~lastOp'.ok <=> (ErrorInRun(run) /\ ~ErrorReported(run))
            /\ IF ErrorInRun(run) /\ ~ErrorReported(run)
               THEN /\ queueStats'.totalProcessed = queueStats.totalProcessed
                    /\ task'[j].attempts = task[j].attempts + 1
                    /\ IF task'[j].attempts < task[j].maxAttempts
                       THEN /\ processingQueue' = <<j>> \o processingQueue
                            /\ queueStats'.totalFailed = queueStats.totalFailed
                       ELSE /\ processingQueue' = processingQueue
                            /\ queueStats'.totalFailed = queueStats.totalFailed + 1
               ELSE /\ queueStats'.totalProcessed = queueStats.totalProcessed + 1
                    /\ queueStats'.totalFailed = queueStats.totalFailed
                    /\ task'[j].attempts = task[j].attempts
                    /\ processingQueue' = processingQueue
                    /\ hist'[j].succ = hist[j].succ + 1]_vars

\* the processFile call of job 1 refused an oversized file and resolved: the
\* queue counted a success although nothing was offered
C29_Witness ==
    /\ lastOp.op = "processFile" /\ lastOp.arg = 1 /\ lastOp.ok
    /\ lastOp.run.analysis = "toolarge" /\ lastOp.run.edited
    /\ queueStats.totalProcessed = 1
    /\ ~session[1]

====
